---- MODULE Spec2Model ----
(***************************************************************************)
(* token_vault: an Anchor program with five instructions                    *)
(* (initialize_vault, deposit, withdraw, lock_vault, unlock_vault) over a   *)
(* Vault account per authority and SPL token accounts.                      *)
(*                                                                          *)
(* Every instruction is one atomic action: Anchor validates the accounts    *)
(* of the instruction's Accounts struct (constraints in Anchor's order:     *)
(* seeds, has_one, then address / token::authority), runs the handler, and  *)
(* the runtime discards every write of an instruction that returns Err.     *)
(***************************************************************************)
EXTENDS Integers, FiniteSets, Sequences, TLC

(* ---- bounds of the model ---- *)
\* unix_timestamp ranges over 0..MaxTime
MaxTime == 1
\* instruction amounts range over 0..MaxAmount
MaxAmount == 1
\* bump seeds range over 0..MaxBump (u8 in the program)
MaxBump == 1
\* tokens each wallet starts with in its own token account
InitBalance == MaxAmount

VARIABLES
    vaults,     \* Vault accounts of the program: address -> record (lib.rs Vault)
    tokens,     \* SPL token accounts: address -> [owner, amount]
    now,        \* Clock::get()?.unix_timestamp
    op,         \* the last instruction invoked: its name, its signer, the vault presented
    result,     \* its outcome: "Ok" or the error it returned
    transfers,  \* the token::transfer calls (CPI) it made
    deadline    \* history: the latest unlock_timestamp each vault has been locked
                \* until (recorded under SpecDeadline only)

vars == <<vaults, tokens, now, op, result, transfers, deadline>>

(* ---- keys ---- *)
UserNames == {"A", "B"}
\* the wallets that sign instructions (payer / authority: Signer)
Signers == {<<"wallet", u>> : u \in UserNames}
Bumps == 0..MaxBump
Amounts == 0..MaxAmount
\* timestamps an authority may ask for in lock_vault
Timestamps == 0..(MaxTime + 1)

\* a number standing for the bytes of a wallet key in the derivation hash
KeyNum(key) == IF key[2] = "A" THEN 1 ELSE 2

\* the hash of the seeds falls on the ed25519 curve for some bumps, and such a
\* bump derives no program address
OnCurve(label, seed, bump) ==
    LET w == IF label = "vault" THEN KeyNum(seed) ELSE KeyNum(seed[2]) + 1
    IN  (w + bump) % 3 = 0

NoAddress == <<"none">>

\* Pubkey::create_program_address(&[label, seed, &[bump]], program_id): the
\* address is a collision-free function of its three inputs
create_program_address(label, seed, bump) ==
    IF OnCurve(label, seed, bump) THEN NoAddress ELSE <<label, seed, bump>>

\* the bumps that derive an address for these seeds
ValidBumps(label, seed) == {b \in Bumps : ~OnCurve(label, seed, b)}

\* Pubkey::find_program_address: the highest bump that derives an address
\* (the canonical bump), with the address it derives
find_program_address(label, seed) ==
    LET b == CHOOSE x \in ValidBumps(label, seed) :
                 \A y \in ValidBumps(label, seed) : y <= x
    IN  <<create_program_address(label, seed, b), b>>

\* the address of the Vault account of an authority: seeds ["vault", authority]
VaultAddress(authority) == find_program_address("vault", authority)[1]

\* every program address derivable with seeds ["vault", wallet]
VaultAddrs ==
    {create_program_address("vault", s, b) : s \in Signers, b \in Bumps} \ {NoAddress}

\* every program address derivable with seeds ["authority", vault address]
AuthorityAddrs ==
    UNION {{<<"authority", v, b>> : b \in ValidBumps("authority", v)} : v \in VaultAddrs}

\* addresses of token accounts: the one each wallet holds from the start, and
\* the fresh keypair a payer generates for initialize_vault (init needs the new
\* account's signature, so a payer presents no other wallet's fresh keypair)
WalletTokenAddr(s) == <<"token", KeyNum(s)>>
FreshTokenAddr(s) == <<"token", Cardinality(UserNames) + KeyNum(s)>>
TokenAddrs == {WalletTokenAddr(s) : s \in Signers} \cup {FreshTokenAddr(s) : s \in Signers}

\* a function with one more (or one replaced) entry
Put(f, k, v) == [x \in (DOMAIN f) \cup {k} |-> IF x = k THEN v ELSE f[x]]

(* ---- the Transfer of the SPL token program ---- *)
\* token::transfer(from, to, authority, amount): the authority must own the
\* source account and have signed, and the source must hold the amount
TransferResult(from, to, authority, signed, amount) ==
    IF tokens[from].owner # authority \/ ~signed THEN "TransferFailed"
    ELSE IF tokens[from].amount < amount THEN "TransferFailed"
    ELSE "Ok"

TransferEffect(from, to, amount) ==
    IF from = to THEN tokens
    ELSE [tokens EXCEPT ![from].amount = @ - amount, ![to].amount = @ + amount]

(* ---- initial state ---- *)
Init ==
    /\ vaults = << >>
    /\ tokens = [a \in {WalletTokenAddr(s) : s \in Signers} |->
                    [owner |-> CHOOSE s \in Signers : WalletTokenAddr(s) = a,
                     amount |-> InitBalance]]
    /\ now = 0
    /\ op = [name |-> "none", caller |-> NoAddress, vault |-> NoAddress]
    /\ result = "Ok"
    /\ transfers = 0
    /\ deadline = [v \in VaultAddrs |-> 0]

\* the clock of the cluster advances
Tick ==
    /\ now < MaxTime
    /\ now' = now + 1
    /\ UNCHANGED <<vaults, tokens, op, result, transfers>>

\* mutant: a write made before the failing check survives the error
Fail_PartialWrite(o, err) ==
    /\ op' = o
    /\ result' = err
    /\ vaults' = IF o.vault \in DOMAIN vaults
                  THEN [vaults EXCEPT ![o.vault].is_locked = TRUE]
                  ELSE vaults
    /\ UNCHANGED <<tokens, now>>

\* an instruction that returned Err: the runtime keeps none of its writes
Fail(o, err) ==
    /\ op' = o
    /\ result' = err
    /\ UNCHANGED <<vaults, tokens, now>>

(* ---- Instruction 1: initialize_vault ---- *)
\* mutant: init_if_needed, an occupied address is taken over
InitializeVaultCheck_IfNeeded(payer, vault, vault_authority, token_account, authority_bump) ==
    IF vault # find_program_address("vault", payer)[1] THEN "AddressMismatch"
    ELSE IF vault_authority # create_program_address("authority", vault, authority_bump)
         THEN "AddressMismatch"
    ELSE "Ok"

\* mutant: the vault_authority field carries no seeds constraint
InitializeVaultCheck_AnyAuthority(payer, vault, vault_authority, token_account, authority_bump) ==
    IF vault # find_program_address("vault", payer)[1] THEN "AddressMismatch"
    ELSE IF vault \in DOMAIN vaults THEN "AlreadyExists"
    ELSE IF token_account \in DOMAIN tokens THEN "AlreadyExists"
    ELSE "Ok"

\* InitializeVault accounts validation: init of the vault at its derived
\* address, init of the token account, seeds of the vault authority
InitializeVaultCheck(payer, vault, vault_authority, token_account, authority_bump) ==
    IF vault # find_program_address("vault", payer)[1] THEN "AddressMismatch"
    ELSE IF vault \in DOMAIN vaults THEN "AlreadyExists"
    ELSE IF token_account \in DOMAIN tokens THEN "AlreadyExists"
    ELSE IF vault_authority # create_program_address("authority", vault, authority_bump)
         THEN "AddressMismatch"
    ELSE "Ok"

\* the record the handler writes
InitialVault(payer, token_account, vault_bump, authority_bump) ==
    [authority |-> payer,
     token_account |-> token_account,
     bump |-> vault_bump,
     authority_bump |-> authority_bump,
     is_locked |-> FALSE,
     unlock_timestamp |-> 0]

initialize_vault(payer, vault, vault_authority, token_account, vault_bump, authority_bump) ==
    LET o == [name |-> "Initialize", caller |-> payer, vault |-> vault]
        r == InitializeVaultCheck(payer, vault, vault_authority, token_account,
                                  authority_bump)
    IN  /\ transfers' = 0
        /\ IF r # "Ok" THEN Fail(o, r)
           ELSE
             /\ vaults' = Put(vaults, vault,
                              InitialVault(payer, token_account, vault_bump,
                                           authority_bump))
             /\ tokens' = Put(tokens, token_account,
                              [owner |-> vault_authority, amount |-> 0])
             /\ op' = o
             /\ result' = "Ok"
             /\ UNCHANGED now

(* ---- the Authorization Guard of deposit / withdraw / lock / unlock ---- *)
\* seeds = [b"vault", authority.key()], bump = vault.bump: the presented vault
\* must be the address these seeds derive with the bump stored in it
SeedsCheck(vault, authority) ==
    vault = create_program_address("vault", authority, vaults[vault].bump)

\* has_one = authority
HasOneCheck(vault, authority) == vaults[vault].authority = authority

\* mutant: the vault field carries no seeds and no has_one constraint
VaultCheck_Unconstrained(vault, authority) == "Ok"

\* mutant: the vault field carries has_one and no seeds constraint
VaultCheck_HasOneOnly(vault, authority) ==
    IF ~HasOneCheck(vault, authority) THEN "UnauthorizedAccess" ELSE "Ok"

\* mutant: has_one is checked before seeds
VaultCheck_HasOneFirst(vault, authority) ==
    IF ~HasOneCheck(vault, authority) THEN "UnauthorizedAccess"
    ELSE IF ~SeedsCheck(vault, authority) THEN "AddressMismatch"
    ELSE "Ok"

\* the constraints on the vault field, in Anchor's order: seeds, then has_one
VaultCheck(vault, authority) ==
    IF ~SeedsCheck(vault, authority) THEN "AddressMismatch"
    ELSE IF ~HasOneCheck(vault, authority) THEN "UnauthorizedAccess"
    ELSE "Ok"

\* mutant: user_token_account carries no token::authority constraint
TokenAuthorityCheck_None(user_token_account, authority) == TRUE

\* token::authority = authority on user_token_account
TokenAuthorityCheck(user_token_account, authority) ==
    tokens[user_token_account].owner = authority

\* address = vault.token_account on vault_token_account
TokenAddressCheck(vault, vault_token_account) ==
    vault_token_account = vaults[vault].token_account

(* ---- Instruction 2: deposit ---- *)
DepositCheck(authority, vault, user_token_account, vault_token_account) ==
    IF VaultCheck(vault, authority) # "Ok" THEN VaultCheck(vault, authority)
    ELSE IF ~TokenAuthorityCheck(user_token_account, authority) THEN "TokenOwnerMismatch"
    ELSE IF ~TokenAddressCheck(vault, vault_token_account) THEN "AddressMismatch"
    ELSE "Ok"

\* the handler: one token::transfer signed by the depositor
DepositResult(authority, vault, user_token_account, vault_token_account, amount) ==
    IF DepositCheck(authority, vault, user_token_account, vault_token_account) # "Ok"
    THEN DepositCheck(authority, vault, user_token_account, vault_token_account)
    ELSE TransferResult(user_token_account, vault_token_account, authority, TRUE, amount)

\* mutant: the handler calls token::transfer twice
DepositTransfers_Twice(authority, vault, user_token_account, vault_token_account) ==
    IF DepositCheck(authority, vault, user_token_account, vault_token_account) = "Ok"
    THEN 2 ELSE 0

\* the token::transfer calls of the handler: one, once the accounts are valid
DepositTransfers(authority, vault, user_token_account, vault_token_account) ==
    IF DepositCheck(authority, vault, user_token_account, vault_token_account) = "Ok"
    THEN 1 ELSE 0

deposit(authority, vault, user_token_account, vault_token_account, amount) ==
    LET o == [name |-> "Deposit", caller |-> authority, vault |-> vault]
        r == DepositResult(authority, vault, user_token_account, vault_token_account,
                           amount)
    IN  /\ transfers' = DepositTransfers(authority, vault, user_token_account,
                                         vault_token_account)
        /\ IF r # "Ok" THEN Fail(o, r)
           ELSE
             /\ tokens' = TransferEffect(user_token_account, vault_token_account, amount)
             /\ op' = o
             /\ result' = "Ok"
             /\ UNCHANGED <<vaults, now>>

(* ---- Instruction 3: withdraw ---- *)
\* seeds = [b"authority", vault.key()], bump = vault.authority_bump
AuthoritySeedsCheck(vault, vault_authority) ==
    vault_authority =
        create_program_address("authority", vault, vaults[vault].authority_bump)

WithdrawCheck(authority, vault, vault_authority, user_token_account, vault_token_account) ==
    IF VaultCheck(vault, authority) # "Ok" THEN VaultCheck(vault, authority)
    ELSE IF ~AuthoritySeedsCheck(vault, vault_authority) THEN "AddressMismatch"
    ELSE IF ~TokenAuthorityCheck(user_token_account, authority) THEN "TokenOwnerMismatch"
    ELSE IF ~TokenAddressCheck(vault, vault_token_account) THEN "AddressMismatch"
    ELSE "Ok"

\* mutant: a set lock flag blocks withdrawal whatever the time
TimeLockCheck_FlagOnly(vault) == ~vaults[vault].is_locked

\* Security Check 1: the vault is not locked, or the lock time has expired
TimeLockCheck(vault) ==
    ~vaults[vault].is_locked \/ now >= vaults[vault].unlock_timestamp

\* mutant: the funds check is left out
FundsCheck_None(vault_token_account, amount) == TRUE

\* Security Check 2: the vault token account holds the amount
FundsCheck(vault_token_account, amount) == tokens[vault_token_account].amount >= amount

\* the key that signs the transfer: the address of the signer seeds
\* [b"authority", vault_key, &[vault.authority_bump]]
SignerAddress(vault) ==
    create_program_address("authority", vault, vaults[vault].authority_bump)

\* mutant: the funds check comes before the time-lock check
WithdrawResult_FundsFirst(authority, vault, vault_authority, user_token_account, vault_token_account, amount) ==
    IF WithdrawCheck(authority, vault, vault_authority, user_token_account,
                     vault_token_account) # "Ok"
    THEN WithdrawCheck(authority, vault, vault_authority, user_token_account,
                       vault_token_account)
    ELSE IF ~FundsCheck(vault_token_account, amount) THEN "InsufficientFunds"
    ELSE IF ~TimeLockCheck(vault) THEN "VaultStillLocked"
    ELSE TransferResult(vault_token_account, user_token_account, vault_authority,
                        SignerAddress(vault) = vault_authority, amount)

WithdrawResult(authority, vault, vault_authority, user_token_account, vault_token_account, amount) ==
    IF WithdrawCheck(authority, vault, vault_authority, user_token_account,
                     vault_token_account) # "Ok"
    THEN WithdrawCheck(authority, vault, vault_authority, user_token_account,
                       vault_token_account)
    ELSE IF ~TimeLockCheck(vault) THEN "VaultStillLocked"
    ELSE IF ~FundsCheck(vault_token_account, amount) THEN "InsufficientFunds"
    ELSE TransferResult(vault_token_account, user_token_account, vault_authority,
                        SignerAddress(vault) = vault_authority, amount)

\* the token::transfer calls of the handler: one, once the accounts are valid
\* and both security checks have passed
WithdrawTransfers(authority, vault, vault_authority, user_token_account, vault_token_account, amount) ==
    IF /\ WithdrawCheck(authority, vault, vault_authority, user_token_account,
                        vault_token_account) = "Ok"
       /\ TimeLockCheck(vault)
       /\ FundsCheck(vault_token_account, amount)
    THEN 1 ELSE 0

withdraw(authority, vault, vault_authority, user_token_account, vault_token_account, amount) ==
    LET o == [name |-> "Withdraw", caller |-> authority, vault |-> vault]
        r == WithdrawResult(authority, vault, vault_authority, user_token_account,
                            vault_token_account, amount)
    IN  /\ transfers' = WithdrawTransfers(authority, vault, vault_authority,
                                          user_token_account, vault_token_account, amount)
        /\ IF r # "Ok" THEN Fail(o, r)
           ELSE
             /\ tokens' = TransferEffect(vault_token_account, user_token_account, amount)
             /\ op' = o
             /\ result' = "Ok"
             /\ UNCHANGED <<vaults, now>>

(* ---- Instruction 4: lock_vault ---- *)
\* mutant: a deadline equal to the current time is accepted
UnlockTimeCheck_NotPast(unlock_timestamp) == unlock_timestamp >= now

\* Security Check 1: the time is in the future
UnlockTimeCheck(unlock_timestamp) == unlock_timestamp > now

LockResult(authority, vault, unlock_timestamp) ==
    IF VaultCheck(vault, authority) # "Ok" THEN VaultCheck(vault, authority)
    ELSE IF ~UnlockTimeCheck(unlock_timestamp) THEN "InvalidUnlockTime"
    ELSE "Ok"

LockedVault(v, unlock_timestamp) ==
    [v EXCEPT !.is_locked = TRUE, !.unlock_timestamp = unlock_timestamp]

lock_vault(authority, vault, unlock_timestamp) ==
    LET o == [name |-> "Lock", caller |-> authority, vault |-> vault]
        r == LockResult(authority, vault, unlock_timestamp)
    IN  /\ transfers' = 0
        /\ IF r # "Ok" THEN Fail(o, r)
           ELSE
             /\ vaults' = [vaults EXCEPT ![vault] = LockedVault(@, unlock_timestamp)]
             /\ op' = o
             /\ result' = "Ok"
             /\ UNCHANGED <<tokens, now>>

(* ---- Instruction 5: unlock_vault ---- *)
\* mutant: the deadline must be strictly passed
DeadlineCheck_Strict(vault) == now > vaults[vault].unlock_timestamp

\* Security Check 1: has enough time passed?
DeadlineCheck(vault) == now >= vaults[vault].unlock_timestamp

UnlockResult(authority, vault) ==
    IF VaultCheck(vault, authority) # "Ok" THEN VaultCheck(vault, authority)
    ELSE IF ~DeadlineCheck(vault) THEN "VaultStillLocked"
    ELSE "Ok"

\* mutant: unlock resets the whole record to its default
UnlockedVault_Default(v) ==
    [authority |-> NoAddress, token_account |-> NoAddress, bump |-> 0,
     authority_bump |-> 0, is_locked |-> FALSE, unlock_timestamp |-> 0]

\* mutant: unlock clears the flag and keeps the timestamp
UnlockedVault_FlagOnly(v) == [v EXCEPT !.is_locked = FALSE]

UnlockedVault(v) == [v EXCEPT !.is_locked = FALSE, !.unlock_timestamp = 0]

unlock_vault(authority, vault) ==
    LET o == [name |-> "Unlock", caller |-> authority, vault |-> vault]
        r == UnlockResult(authority, vault)
    IN  /\ transfers' = 0
        /\ IF r # "Ok" THEN Fail(o, r)
           ELSE
             /\ vaults' = [vaults EXCEPT ![vault] = UnlockedVault(@)]
             /\ op' = o
             /\ result' = "Ok"
             /\ UNCHANGED <<tokens, now>>

(* ---- the instructions any wallet can send, with any accounts of the ---- *)
(* ---- type the Accounts struct asks for                              ---- *)
\* Validation stops at the first failing constraint, so an account that is
\* validated after it is never read: one presented value stands for all.
Presented(read, S) == IF read THEN S ELSE {CHOOSE x \in S : TRUE}

Initialize ==
    \E payer \in Signers, vault \in VaultAddrs :
    \E token_account \in Presented(vault = VaultAddress(payer) /\ vault \notin DOMAIN vaults,
                                   DOMAIN tokens \cup {FreshTokenAddr(payer)}) :
    \E vault_authority \in Presented(vault = VaultAddress(payer)
                                       /\ vault \notin DOMAIN vaults
                                       /\ token_account \notin DOMAIN tokens,
                                     AuthorityAddrs),
       authority_bump \in Presented(vault = VaultAddress(payer)
                                      /\ vault \notin DOMAIN vaults
                                      /\ token_account \notin DOMAIN tokens,
                                    Bumps) :
    \E vault_bump \in Presented(InitializeVaultCheck(payer, vault, vault_authority,
                                    token_account, authority_bump) = "Ok", Bumps) :
        initialize_vault(payer, vault, vault_authority, token_account,
                         vault_bump, authority_bump)

Deposit ==
    \E authority \in Signers, vault \in DOMAIN vaults :
    \E user_token_account \in Presented(VaultCheck(vault, authority) = "Ok",
                                        DOMAIN tokens) :
    \E vault_token_account \in Presented(VaultCheck(vault, authority) = "Ok"
                                           /\ TokenAuthorityCheck(user_token_account,
                                                                  authority),
                                         DOMAIN tokens) :
    \E amount \in Presented(DepositCheck(authority, vault, user_token_account,
                                          vault_token_account) = "Ok", Amounts) :
        deposit(authority, vault, user_token_account, vault_token_account, amount)

Withdraw ==
    \E authority \in Signers, vault \in DOMAIN vaults :
    \E vault_authority \in Presented(VaultCheck(vault, authority) = "Ok",
                                     AuthorityAddrs) :
    \E user_token_account \in Presented(VaultCheck(vault, authority) = "Ok"
                                          /\ AuthoritySeedsCheck(vault, vault_authority),
                                        DOMAIN tokens) :
    \E vault_token_account \in Presented(VaultCheck(vault, authority) = "Ok"
                                           /\ AuthoritySeedsCheck(vault, vault_authority)
                                           /\ TokenAuthorityCheck(user_token_account,
                                                                  authority),
                                         DOMAIN tokens) :
    \E amount \in Presented(WithdrawCheck(authority, vault, vault_authority,
                                           user_token_account, vault_token_account)
                               = "Ok", Amounts) :
        withdraw(authority, vault, vault_authority, user_token_account,
                 vault_token_account, amount)

Lock ==
    \E authority \in Signers, vault \in DOMAIN vaults :
    \E unlock_timestamp \in Presented(VaultCheck(vault, authority) = "Ok", Timestamps) :
        lock_vault(authority, vault, unlock_timestamp)

Unlock ==
    \E authority \in Signers, vault \in DOMAIN vaults :
        unlock_vault(authority, vault)

Max(a, b) == IF a >= b THEN a ELSE b

\* the history variable follows the unlock_timestamp the records are given
RecordDeadline ==
    deadline' = [v \in VaultAddrs |->
                    IF v \in DOMAIN vaults'
                    THEN Max(deadline[v], vaults'[v].unlock_timestamp)
                    ELSE deadline[v]]

\* the program, without the history variable
Next ==
    \/ Tick /\ UNCHANGED deadline
    \/ Initialize /\ UNCHANGED deadline
    \/ Deposit /\ UNCHANGED deadline
    \/ Withdraw /\ UNCHANGED deadline
    \/ Lock /\ UNCHANGED deadline
    \/ Unlock /\ UNCHANGED deadline

Spec == Init /\ [][Next]_vars

\* the program, with the deadlines of its locks recorded
NextDeadline ==
    \/ Tick /\ RecordDeadline
    \/ Initialize /\ RecordDeadline
    \/ Deposit /\ RecordDeadline
    \/ Withdraw /\ RecordDeadline
    \/ Lock /\ RecordDeadline
    \/ Unlock /\ RecordDeadline

SpecDeadline == Init /\ [][NextDeadline]_vars

\* the authority of a vault asks to unlock it
UnlockOwn(authority) ==
    /\ VaultAddress(authority) \in DOMAIN vaults
    /\ unlock_vault(authority, VaultAddress(authority))
    /\ UNCHANGED deadline

\* the program with a clock that keeps advancing (up to the bound) and
\* authorities that keep asking to unlock their vaults
SpecFair ==
    /\ Init /\ [][Next]_vars
    /\ WF_vars(Tick /\ UNCHANGED deadline)
    /\ \A authority \in Signers : WF_vars(UnlockOwn(authority))

(***************************************************************************)
(* Properties                                                               *)
(***************************************************************************)
Guarded == {"Deposit", "Withdraw", "Lock", "Unlock"}

\* the balance of the token account a vault record names
VaultBalance(v) == tokens[vaults[v].token_account].amount

\* the accounts an authority presents to withdraw from its vault: the address
\* derived for the vault's delegate, a token account of its own, and the token
\* account the record names
Delegate(v) == <<"authority", v, vaults[v].authority_bump>>
OwnTokenAccounts(s) == {a \in DOMAIN tokens : tokens[a].owner = s}

\* the step is this instruction, sent by this signer for this vault
Sent(name, signer, vault) ==
    op'.name = name /\ op'.caller = signer /\ op'.vault = vault

IsLock(authority, vault, t) ==
    Sent("Lock", authority, vault) /\ lock_vault(authority, vault, t)

IsUnlock(authority, vault) ==
    Sent("Unlock", authority, vault) /\ unlock_vault(authority, vault)

IsDeposit(authority, vault, uta, vta, amount) ==
    Sent("Deposit", authority, vault) /\ deposit(authority, vault, uta, vta, amount)

IsWithdraw(authority, vault, va, uta, vta, amount) ==
    Sent("Withdraw", authority, vault)
        /\ withdraw(authority, vault, va, uta, vta, amount)

IsInitialize(payer, vault, va, ta, vb, ab) ==
    Sent("Initialize", payer, vault) /\ initialize_vault(payer, vault, va, ta, vb, ab)

\* C1: once a Lock with deadline t has succeeded on a vault, no Withdraw from
\* that vault succeeds at a clock value below t (deadline[v] is the latest
\* deadline a successful Lock has given v).  Checked under SpecDeadline.
C1_TimeLockNotBypassed ==
    (op.name = "Withdraw" /\ result = "Ok") => now >= deadline[op.vault]

\* C2: a step that creates a vault, changes a field of its record or changes
\* the balance of its token account is a successful instruction signed by the
\* authority recorded in that vault.
C2_Changed(v) ==
    \/ v \notin DOMAIN vaults
    \/ vaults'[v] # vaults[v]
    \/ tokens'[vaults'[v].token_account].amount # VaultBalance(v)

C2_OnlyAuthorityMutates ==
    [][\A v \in DOMAIN vaults' :
          C2_Changed(v) =>
              /\ result' = "Ok"
              /\ op'.caller = vaults'[v].authority
              /\ op'.vault = v
              /\ IF v \in DOMAIN vaults THEN op'.name \in Guarded
                                        ELSE op'.name = "Initialize"]_vars

\* both vaults exist, A has deposited into its own, and B's is untouched
C2_Witness ==
    /\ op.name = "Deposit" /\ result = "Ok"
    /\ \A s \in Signers : VaultAddress(s) \in DOMAIN vaults
    /\ op.caller = vaults[op.vault].authority
    /\ VaultBalance(op.vault) > 0
    /\ \E v \in DOMAIN vaults : v # op.vault /\ VaultBalance(v) = 0

\* C3 as stated: a guarded instruction whose signer is not the authority of
\* the vault presented fails with UnauthorizedAccess, the record unchanged.
C3_Rejected(err) ==
    \A authority \in Signers, vault \in DOMAIN vaults :
        authority # vaults[vault].authority =>
            /\ (Sent("Lock", authority, vault)
                  /\ \E t \in Timestamps : IsLock(authority, vault, t))
                   => (result' = err /\ vaults' = vaults)
            /\ IsUnlock(authority, vault) => (result' = err /\ vaults' = vaults)
            /\ (Sent("Deposit", authority, vault)
                  /\ \E uta, vta \in DOMAIN tokens, amount \in Amounts :
                        IsDeposit(authority, vault, uta, vta, amount))
                   => (result' = err /\ vaults' = vaults)
            /\ (Sent("Withdraw", authority, vault)
                  /\ \E va \in AuthorityAddrs, uta, vta \in DOMAIN tokens,
                        amount \in Amounts :
                        IsWithdraw(authority, vault, va, uta, vta, amount))
                   => (result' = err /\ vaults' = vaults)

C3_UnauthorizedAccess == [][C3_Rejected("UnauthorizedAccess")]_vars

\* C3 as amended: such an instruction fails with AddressMismatch (the seeds
\* check runs before has_one and never passes for another signer), the record
\* unchanged.
C3_AddressMismatch == [][C3_Rejected("AddressMismatch")]_vars

\* B has tried to withdraw from the funded vault of A
C3_Witness ==
    /\ op.name = "Withdraw" /\ result = "AddressMismatch"
    /\ op.vault \in DOMAIN vaults
    /\ op.caller # vaults[op.vault].authority
    /\ VaultBalance(op.vault) > 0

\* C4: no step removes a vault or changes the authority or the token_account
\* of its record: both keep the values initialize_vault wrote.
C4_AuthorityImmutable ==
    [][\A v \in DOMAIN vaults :
          /\ v \in DOMAIN vaults'
          /\ vaults'[v].authority = vaults[v].authority
          /\ vaults'[v].token_account = vaults[v].token_account]_vars

\* a funded vault has been locked and unlocked again by its authority
C4_Witness ==
    /\ op.name = "Unlock" /\ result = "Ok"
    /\ now > 0
    /\ vaults[op.vault].authority = op.caller
    /\ VaultBalance(op.vault) > 0

\* C5 as stated: a Lock(t) by the authority of the vault succeeds only if
\* t > now, and then is_locked = TRUE and unlock_timestamp = t; with t <= now it
\* fails with InvalidUnlockTime and both lock fields keep their values.
C5_LockOutcome(authority, vault, t) ==
    /\ result' = "Ok" =>
          /\ t > now
          /\ vaults'[vault].is_locked
          /\ vaults'[vault].unlock_timestamp = t
    /\ t <= now =>
          /\ result' = "InvalidUnlockTime"
          /\ vaults'[vault].is_locked = vaults[vault].is_locked
          /\ vaults'[vault].unlock_timestamp = vaults[vault].unlock_timestamp

C5_LockGuard ==
    [][\A authority \in Signers, vault \in DOMAIN vaults :
          Sent("Lock", authority, vault) /\ vaults[vault].authority = authority =>
              \A t \in Timestamps :
                  IsLock(authority, vault, t) => C5_LockOutcome(authority, vault, t)]_vars

\* C5 for the Locks that reach the handler (the Authorization Guard passes):
\* there the outcome is as stated, and t > now is also sufficient.
C5_LockGuardInHandler ==
    [][\A authority \in Signers, vault \in DOMAIN vaults :
          Sent("Lock", authority, vault) /\ VaultCheck(vault, authority) = "Ok" =>
              \A t \in Timestamps :
                  IsLock(authority, vault, t) =>
                      /\ C5_LockOutcome(authority, vault, t)
                      /\ t > now => result' = "Ok"]_vars

\* the authority of a locked vault has asked for a deadline that is not in the
\* future, and the earlier deadline stands
C5_Witness ==
    /\ op.name = "Lock" /\ result = "InvalidUnlockTime"
    /\ vaults[op.vault].is_locked
    /\ vaults[op.vault].unlock_timestamp = now

\* C6: an Unlock of a locked vault by its authority succeeds exactly when
\* now >= unlock_timestamp, and then is_locked = FALSE and unlock_timestamp = 0;
\* before the deadline it fails with VaultStillLocked and the record keeps its
\* values.
C6_UnlockGuard ==
    [][\A authority \in Signers, vault \in DOMAIN vaults :
          (/\ IsUnlock(authority, vault)
           /\ vaults[vault].authority = authority
           /\ vaults[vault].is_locked) =>
              IF now >= vaults[vault].unlock_timestamp
              THEN /\ result' = "Ok"
                   /\ ~vaults'[vault].is_locked
                   /\ vaults'[vault].unlock_timestamp = 0
              ELSE /\ result' = "VaultStillLocked"
                   /\ vaults'[vault] = vaults[vault]]_vars

\* the authority has tried to unlock before the deadline
C6_Witness ==
    /\ op.name = "Unlock" /\ result = "VaultStillLocked"
    /\ vaults[op.vault].is_locked
    /\ now < vaults[op.vault].unlock_timestamp

\* C7: a Withdraw of at most the balance from a locked vault, by its authority
\* with its own accounts, succeeds when now >= unlock_timestamp and fails with
\* VaultStillLocked before; it leaves the record as it is (is_locked stays
\* TRUE), and only a successful Unlock of that vault clears the flag.
C7_WithdrawLockBypass ==
    [][/\ \A authority \in Signers, vault \in DOMAIN vaults :
            (/\ Sent("Withdraw", authority, vault)
             /\ vaults[vault].authority = authority
             /\ vaults[vault].is_locked) =>
                \A uta \in OwnTokenAccounts(authority), amount \in Amounts :
                    (/\ amount <= VaultBalance(vault)
                     /\ IsWithdraw(authority, vault, Delegate(vault), uta,
                                   vaults[vault].token_account, amount)) =>
                        IF now >= vaults[vault].unlock_timestamp
                        THEN /\ result' = "Ok"
                             /\ vaults' = vaults
                             /\ VaultBalance(vault)' = VaultBalance(vault) - amount
                        ELSE result' = "VaultStillLocked"
       /\ \A v \in DOMAIN vaults :
            vaults[v].is_locked /\ ~vaults'[v].is_locked =>
                op'.name = "Unlock" /\ op'.vault = v /\ result' = "Ok"]_vars

\* the authority has withdrawn from a vault whose lock has expired and whose
\* flag is still set
C7_Witness ==
    /\ op.name = "Withdraw" /\ result = "Ok"
    /\ vaults[op.vault].is_locked
    /\ vaults[op.vault].unlock_timestamp > 0
    /\ now >= vaults[op.vault].unlock_timestamp
    /\ VaultBalance(op.vault) < InitBalance
    /\ tokens[WalletTokenAddr(op.caller)].amount + VaultBalance(op.vault) = InitBalance

\* C8: a successful Deposit adds exactly its amount to the vault's token
\* account and a successful Withdraw subtracts exactly its amount; a Withdraw
\* by the authority with its own accounts that passes the lock check with an
\* amount above the balance fails with InsufficientFunds and changes no balance.
C8_BalanceConservation ==
    [][\A authority \in Signers, vault \in DOMAIN vaults :
          /\ Sent("Deposit", authority, vault) /\ result' = "Ok" =>
                \A uta, vta \in DOMAIN tokens, amount \in Amounts :
                    IsDeposit(authority, vault, uta, vta, amount) =>
                        /\ vta = vaults[vault].token_account
                        /\ tokens'[vta].amount = tokens[vta].amount + amount
                        /\ tokens'[uta].amount = tokens[uta].amount - amount
          /\ Sent("Withdraw", authority, vault) /\ result' = "Ok" =>
                \A va \in AuthorityAddrs, uta, vta \in DOMAIN tokens, amount \in Amounts :
                    IsWithdraw(authority, vault, va, uta, vta, amount) =>
                        /\ vta = vaults[vault].token_account
                        /\ amount <= tokens[vta].amount
                        /\ tokens'[vta].amount = tokens[vta].amount - amount
                        /\ tokens'[uta].amount = tokens[uta].amount + amount
          /\ (/\ Sent("Withdraw", authority, vault)
              /\ VaultCheck(vault, authority) = "Ok"
              /\ ~vaults[vault].is_locked \/ now >= vaults[vault].unlock_timestamp) =>
                \A uta \in OwnTokenAccounts(authority), amount \in Amounts :
                    (/\ amount > VaultBalance(vault)
                     /\ IsWithdraw(authority, vault, Delegate(vault), uta,
                                   vaults[vault].token_account, amount)) =>
                        result' = "InsufficientFunds" /\ tokens' = tokens]_vars

\* the authority has asked an emptied vault for more than it holds
C8_Witness ==
    /\ op.name = "Withdraw" /\ result = "InsufficientFunds"
    /\ vaults[op.vault].authority = op.caller
    /\ VaultBalance(op.vault) < MaxAmount

\* C9: an Initialize for an authority whose vault address is occupied fails
\* with AlreadyExists and changes neither a record nor a token account, and no
\* step removes a vault record.
C9_CreatedOnce ==
    [][/\ \A payer \in Signers, vault \in DOMAIN vaults :
            Sent("Initialize", payer, vault) /\ vault = VaultAddress(payer) =>
                \A va \in AuthorityAddrs, ta \in TokenAddrs, vb, ab \in Bumps :
                    IsInitialize(payer, vault, va, ta, vb, ab) =>
                        /\ result' = "AlreadyExists"
                        /\ vaults' = vaults
                        /\ tokens' = tokens
       /\ \A v \in DOMAIN vaults : v \in DOMAIN vaults']_vars

\* the authority of a locked, funded vault has tried to initialize it again
C9_Witness ==
    /\ op.name = "Initialize" /\ result = "AlreadyExists"
    /\ op.vault = VaultAddress(op.caller)
    /\ op.vault \in DOMAIN vaults
    /\ vaults[op.vault].is_locked
    /\ VaultBalance(op.vault) > 0

\* C10: an instruction that ends in an error changes no vault record and no
\* token account.
C10_NoPartialEffects ==
    [][result' # "Ok" => vaults' = vaults /\ tokens' = tokens]_vars

\* a deposit has failed in the token program's transfer
C10_Witness ==
    /\ op.name = "Deposit" /\ result = "TransferFailed"
    /\ vaults[op.vault].authority = op.caller

\* C11: the token account a vault record names is owned by the program address
\* derived from ["authority", vault address] with the recorded authority_bump
\* and by no wallet; and a step that takes tokens out of it is a successful
\* Withdraw on that vault that presented exactly that address as
\* vault_authority and exactly that account as vault_token_account.
C11_Controlled(v) ==
    /\ vaults[v].token_account \in DOMAIN tokens
    /\ tokens[vaults[v].token_account].owner = Delegate(v)
    /\ Delegate(v) = create_program_address("authority", v, vaults[v].authority_bump)
    /\ Delegate(v) \notin Signers

C11_DelegateControl ==
    /\ [](\A v \in DOMAIN vaults : C11_Controlled(v))
    /\ [][\A v \in DOMAIN vaults :
            tokens'[vaults[v].token_account].amount < VaultBalance(v) =>
                /\ op'.name = "Withdraw" /\ op'.vault = v /\ result' = "Ok"
                /\ \A va \in AuthorityAddrs, uta, vta \in DOMAIN tokens,
                      amount \in Amounts :
                        IsWithdraw(op'.caller, v, va, uta, vta, amount) =>
                            va = Delegate(v) /\ vta = vaults[v].token_account]_vars

\* the authority of a funded, usable vault has asked to withdraw with another
\* delegate address or another source account, and the funds have stayed
C11_Witness ==
    /\ op.name = "Withdraw" /\ result = "AddressMismatch"
    /\ op.vault \in DOMAIN vaults
    /\ VaultCheck(op.vault, op.caller) = "Ok"
    /\ VaultBalance(op.vault) > 0

\* C12: the balance of a vault's token account changes only in a successful
\* Deposit or Withdraw on that vault, which makes exactly one token::transfer
\* call; Initialize, Lock and Unlock make no such call and change no balance;
\* no instruction makes more than one.
C12_BalanceChanged(v) ==
    /\ vaults[v].token_account \in DOMAIN tokens
    /\ tokens'[vaults[v].token_account].amount # VaultBalance(v)

C12_OnlyByTransfer ==
    [][/\ \A v \in DOMAIN vaults :
            C12_BalanceChanged(v) =>
                /\ op'.name \in {"Deposit", "Withdraw"}
                /\ op'.vault = v
                /\ result' = "Ok"
                /\ transfers' = 1
       /\ (op'.name \in {"Deposit", "Withdraw"} /\ result' = "Ok" /\ now' = now) =>
              transfers' = 1
       /\ op'.name \in {"Initialize", "Lock", "Unlock"} =>
              /\ transfers' = 0
              /\ \A a \in DOMAIN tokens : tokens'[a].amount = tokens[a].amount
       /\ transfers' <= 1]_vars

\* a vault has been funded by a deposit that made one transfer call
C12_Witness ==
    /\ op.name = "Deposit" /\ result = "Ok"
    /\ transfers = 1
    /\ VaultBalance(op.vault) = InitBalance
    /\ tokens[WalletTokenAddr(op.caller)].amount = 0

\* C13: in every vault record the stored bump derives the vault's own address
\* from ["vault", authority] and the stored authority_bump derives an address
\* from ["authority", vault], so that the seeds constraints of the authority's
\* later deposit, withdraw, lock_vault and unlock_vault are satisfied.
C13_StoredBumpsDerive ==
    \A v \in DOMAIN vaults :
        /\ SeedsCheck(v, vaults[v].authority)
        /\ VaultCheck(v, vaults[v].authority) = "Ok"
        /\ AuthoritySeedsCheck(v, Delegate(v))

\* C14: the lock fields of a vault change only from Unlocked to Locked(t) in a
\* successful Lock and from Locked(t) to Unlocked in a successful Unlock; a
\* vault that is Locked(t) is never moved to Locked(t') with t' # t.
C14_LockFieldsChanged(v) ==
    \/ vaults'[v].is_locked # vaults[v].is_locked
    \/ vaults'[v].unlock_timestamp # vaults[v].unlock_timestamp

C14_LockTransitions ==
    [][\A v \in DOMAIN vaults :
          C14_LockFieldsChanged(v) =>
              \/ /\ ~vaults[v].is_locked /\ vaults'[v].is_locked
                 /\ op'.name = "Lock" /\ op'.vault = v /\ result' = "Ok"
              \/ /\ vaults[v].is_locked /\ ~vaults'[v].is_locked
                 /\ op'.name = "Unlock" /\ op'.vault = v /\ result' = "Ok"]_vars

\* C15: a guarded instruction whose presented vault is not the address derived
\* from ["vault", caller] is rejected with AddressMismatch (the seeds check
\* comes before has_one, which would reject it too); and an instruction passes
\* the guard, or succeeds, only if the vault is that address and its recorded
\* authority is the caller.
C15_GuardOrder ==
    [][\A authority \in Signers, vault \in DOMAIN vaults :
          (Sent("Deposit", authority, vault) \/ Sent("Withdraw", authority, vault)
             \/ Sent("Lock", authority, vault) \/ Sent("Unlock", authority, vault))
          /\ now' = now =>
              /\ vault # VaultAddress(authority) =>
                    /\ result' = "AddressMismatch"
                    /\ VaultCheck(vault, authority) = "AddressMismatch"
                    /\ ~HasOneCheck(vault, authority)
              /\ (VaultCheck(vault, authority) = "Ok" \/ result' = "Ok") =>
                    /\ vault = VaultAddress(authority)
                    /\ SeedsCheck(vault, authority)
                    /\ HasOneCheck(vault, authority)]_vars

\* a wallet has asked to lock the locked vault of another authority
C15_Witness ==
    /\ op.name = "Lock" /\ result = "AddressMismatch"
    /\ op.vault \in DOMAIN vaults
    /\ op.vault # VaultAddress(op.caller)
    /\ vaults[op.vault].authority # op.caller
    /\ vaults[op.vault].is_locked

\* C16: a Withdraw by the authority with its own accounts on a vault that is
\* locked with now < unlock_timestamp fails with VaultStillLocked whatever the
\* amount, above the balance or not; and a Withdraw returns InsufficientFunds
\* only when the lock condition holds and the amount exceeds the balance.
C16_WithdrawCheckOrder ==
    [][\A authority \in Signers, vault \in DOMAIN vaults :
          Sent("Withdraw", authority, vault) /\ now' = now =>
              /\ (/\ vaults[vault].authority = authority
                  /\ vaults[vault].is_locked
                  /\ now < vaults[vault].unlock_timestamp) =>
                    \A uta \in OwnTokenAccounts(authority), amount \in Amounts :
                        IsWithdraw(authority, vault, Delegate(vault), uta,
                                   vaults[vault].token_account, amount)
                            => result' = "VaultStillLocked"
              /\ result' = "InsufficientFunds" =>
                    /\ ~vaults[vault].is_locked \/ now >= vaults[vault].unlock_timestamp
                    /\ \A va \in AuthorityAddrs, uta, vta \in DOMAIN tokens,
                          amount \in Amounts :
                            IsWithdraw(authority, vault, va, uta, vta, amount) =>
                                /\ vta = vaults[vault].token_account
                                /\ amount > VaultBalance(vault)]_vars

\* the authority has asked a locked, empty vault for tokens before the deadline
C16_Witness ==
    /\ op.name = "Withdraw" /\ result = "VaultStillLocked"
    /\ vaults[op.vault].authority = op.caller
    /\ vaults[op.vault].is_locked
    /\ now < vaults[op.vault].unlock_timestamp
    /\ VaultBalance(op.vault) = 0

\* C17: a vault that is Locked(t), with t a time the clock reaches, eventually
\* becomes Unlocked when the clock keeps advancing and the authority keeps
\* asking to unlock.  Checked under SpecFair.
C17_Locked(v, t) ==
    v \in DOMAIN vaults /\ vaults[v].is_locked /\ vaults[v].unlock_timestamp = t

C17_StaysPermitted ==
    /\ [](\A v \in DOMAIN vaults :
            (VaultCheck(v, vaults[v].authority) = "Ok" /\ ~vaults[v].is_locked) =>
                LockResult(vaults[v].authority, v, now + 1) = "Ok")
    /\ [][\A v \in DOMAIN vaults :
            (/\ DeadlineCheck(v)
             /\ ~(op'.name = "Lock" /\ op'.vault = v /\ result' = "Ok" /\ now' = now)) =>
                /\ now' >= vaults'[v].unlock_timestamp
                /\ ~vaults'[v].is_locked \/ now' >= vaults'[v].unlock_timestamp]_vars

\* C18: in every vault record is_locked = FALSE implies unlock_timestamp = 0;
\* a created record is unlocked with timestamp 0, a step that writes a
\* timestamp other than 0 sets the flag, a step that clears the flag zeroes the
\* timestamp, and Deposit and Withdraw leave both fields as they are.
C18_UnlockedHasNoDeadline ==
    /\ [](\A v \in DOMAIN vaults :
            ~vaults[v].is_locked => vaults[v].unlock_timestamp = 0)
    /\ [][\A v \in DOMAIN vaults' :
            IF v \notin DOMAIN vaults
            THEN ~vaults'[v].is_locked /\ vaults'[v].unlock_timestamp = 0
            ELSE /\ op'.name \in {"Deposit", "Withdraw", "Initialize"} =>
                       /\ vaults'[v].is_locked = vaults[v].is_locked
                       /\ vaults'[v].unlock_timestamp = vaults[v].unlock_timestamp
                 /\ vaults'[v].unlock_timestamp # vaults[v].unlock_timestamp =>
                       IF vaults'[v].unlock_timestamp = 0
                       THEN ~vaults'[v].is_locked
                       ELSE vaults'[v].is_locked]_vars

\* a vault has been unlocked at its deadline while another is still locked
C18_Witness ==
    /\ op.name = "Unlock" /\ result = "Ok"
    /\ now = MaxTime
    /\ ~vaults[op.vault].is_locked /\ vaults[op.vault].unlock_timestamp = 0
    /\ \E v \in DOMAIN vaults :
          vaults[v].is_locked /\ vaults[v].unlock_timestamp > now

\* C19 as stated: an Unlock by the authority of a vault that is Unlocked
\* (is_locked = FALSE, unlock_timestamp = 0) succeeds at every clock value and
\* leaves the record as it is, so a second Unlock gives the same record.
C19_UnlockOfUnlocked(authority, vault) ==
    /\ IsUnlock(authority, vault)
    /\ now' = now
    /\ ~vaults[vault].is_locked
    /\ vaults[vault].unlock_timestamp = 0

C19_UnlockIdempotent ==
    [][\A authority \in Signers, vault \in DOMAIN vaults :
          (C19_UnlockOfUnlocked(authority, vault) /\ vaults[vault].authority = authority)
              => (result' = "Ok" /\ vaults' = vaults)]_vars

\* C19 for the Unlocks that reach the handler (the Authorization Guard passes)
C19_UnlockIdempotentInHandler ==
    [][\A authority \in Signers, vault \in DOMAIN vaults :
          (C19_UnlockOfUnlocked(authority, vault) /\ VaultCheck(vault, authority) = "Ok")
              => (result' = "Ok" /\ vaults' = vaults)]_vars

\* C20: a successful Withdraw debits the token account the vault record names
\* and credits a token account owned by the caller, who is the recorded
\* authority; a successful Deposit debits a token account owned by the caller
\* and credits the one the record names; so in every step the tokens held by
\* the authority of a vault and by the vault together stay the same.
RECURSIVE C20_Sum(_, _)
C20_Sum(t, S) ==
    IF S = {} THEN 0
    ELSE LET a == CHOOSE x \in S : TRUE IN t[a].amount + C20_Sum(t, S \ {a})

C20_Held(t, v) ==
    C20_Sum(t, {a \in DOMAIN t : t[a].owner = vaults[v].authority})
        + t[vaults[v].token_account].amount

C20_FundsStayWithAuthority ==
    [][/\ \A authority \in Signers, vault \in DOMAIN vaults :
            /\ (Sent("Withdraw", authority, vault) /\ result' = "Ok" /\ now' = now) =>
                  /\ authority = vaults[vault].authority
                  /\ \A va \in AuthorityAddrs, uta, vta \in DOMAIN tokens,
                        amount \in Amounts :
                          IsWithdraw(authority, vault, va, uta, vta, amount) =>
                              /\ tokens[uta].owner = authority
                              /\ vta = vaults[vault].token_account
                              /\ tokens'[uta].amount = tokens[uta].amount + amount
                              /\ tokens'[vta].amount = tokens[vta].amount - amount
            /\ (Sent("Deposit", authority, vault) /\ result' = "Ok" /\ now' = now) =>
                  /\ authority = vaults[vault].authority
                  /\ \A uta, vta \in DOMAIN tokens, amount \in Amounts :
                          IsDeposit(authority, vault, uta, vta, amount) =>
                              /\ tokens[uta].owner = authority
                              /\ vta = vaults[vault].token_account
                              /\ tokens'[uta].amount = tokens[uta].amount - amount
                              /\ tokens'[vta].amount = tokens[vta].amount + amount
       /\ \A v \in DOMAIN vaults : C20_Held(tokens', v) = C20_Held(tokens, v)]_vars

\* an authority has taken its tokens back while the other vault keeps its own
C20_Witness ==
    /\ op.name = "Withdraw" /\ result = "Ok"
    /\ op.caller = vaults[op.vault].authority
    /\ VaultBalance(op.vault) = 0
    /\ tokens[WalletTokenAddr(op.caller)].amount = InitBalance
    /\ \E v \in DOMAIN vaults :
          /\ v # op.vault
          /\ VaultBalance(v) = InitBalance
          /\ tokens[WalletTokenAddr(vaults[v].authority)].amount = 0
====
